---- MODULE Spec2Model ----
(***************************************************************************)
(* State-machine model of the CANConnector (src/src/CANConnector.cpp): a   *)
(* client of the Linux CAN broadcast manager (BCM) built on boost::asio.   *)
(* One application thread constructs the connector, calls the tx*          *)
(* operations and destroys it; one worker thread runs the io_context and   *)
(* executes the completion handlers.                                       *)
(***************************************************************************)
EXTENDS Integers, Sequences, FiniteSets, TLC

VARIABLES
    appPc,          \* position of the application thread
    crashed,        \* the process was killed by an out-of-bounds write
    sock,           \* bcmSocket: [ifindex, connected]
    ioStopped,      \* ioContext->stopped()
    workerPc,       \* position of ioContextThread
    rxOutstanding,  \* async_receive operations submitted and not completed
    sockQueue,      \* datagrams (or errors) waiting in the BCM socket
    rxBuffer,       \* the member rxBuffer, as last filled by a receive
    cb,             \* what the running (or last) receive completion did
    malformedSeen,  \* a receive completion has discarded a datagram
    sendOps,        \* async_send operations submitted, handler not yet run
    tasks,          \* cyclic transmission tasks held by the kernel
    nInputs,        \* calls made and datagrams arrived so far
    sendsDropped,   \* async_send handlers destroyed without being invoked
    calls,          \* calls of ioContext->stop() and ioContextThread.join()
    sockUsers       \* threads executing a member function of bcmSocket

vars == <<appPc, crashed, sock, ioStopped, workerPc, rxOutstanding, sockQueue,
          rxBuffer, cb, malformedSeen, sendOps, tasks, nInputs,
          sendsDropped, calls, sockUsers>>

-----------------------------------------------------------------------------
(* Bounds of the model *)

\* calls of the application plus datagrams arriving on the socket
MaxInputs == 2

-----------------------------------------------------------------------------
(* Program constants *)

MAXFRAMES == 256
\* sizeof(bcm_msg_head), sizeof(can_frame), sizeof(canfd_frame)
HeaderSize == 56
CanFrameSize == 16
CanFdFrameSize == 72
\* data bytes of a struct can_frame
CanMaxDlen == 8
\* the interface index of INTERFACE once resolved
VcanIndex == 1

Min(a, b) == IF a < b THEN a ELSE b

FrameSize(isCANFD) == IF isCANFD THEN CanFdFrameSize ELSE CanFrameSize

\* sizeof(struct bcmMsgSingleFrameCan / bcmMsgSingleFrameCanFD)
SingleFrameSlots == 1
\* sizeof(struct bcmMsgMultipleFramesCan / bcmMsgMultipleFramesCanFD)
MultipleFramesSlots == MAXFRAMES
\* rxBuffer holds one bcmMsgMultipleFramesCanFD
RxBufferSize == HeaderSize + MAXFRAMES * CanFdFrameSize

-----------------------------------------------------------------------------
(* Frames, headers and messages *)

\* A frame is [can_id, len, data]; data lists the data bytes up to the last
\* one set, the rest of the array being zero.
ZeroFrame == [can_id |-> 0, len |-> 0, data |-> <<>>]

canFrame1 == [can_id |-> 291, len |-> 4, data |-> <<222, 173, 190, 239>>]
canFrame2 == [can_id |-> 837, len |-> 3, data |-> <<192, 255, 238>>]
canfdFrame1 == [can_id |-> 1383, len |-> 16,
                data |-> <<222, 173, 190, 239, 222, 173, 190, 239,
                           222, 173, 190, 239, 222, 173, 190, 239>>]
canfdFrame2 == [can_id |-> 1929, len |-> 12,
                data |-> <<192, 255, 238, 192, 255, 238,
                           192, 255, 238, 192, 255, 238>>]

testIval1 == [tv_sec |-> 0, tv_usec |-> 500]
testIval2 == [tv_sec |-> 1, tv_usec |-> 0]
ZeroIval == [tv_sec |-> 0, tv_usec |-> 0]

\* *((struct can_frame*) &frame): the first sizeof(can_frame) bytes of a
\* canfd_frame, i.e. can_id, the length byte and the first 8 data bytes.
AsCanFrame(f) ==
    [can_id |-> f.can_id, len |-> f.len,
     data |-> SubSeq(f.data, 1, Min(Len(f.data), CanMaxDlen))]

\* a value-initialised bcm_msg_head (std::make_shared<T>())
ZeroHead ==
    [opcode |-> "0", flags |-> {}, count |-> 0, ival1 |-> ZeroIval,
     ival2 |-> ZeroIval, can_id |-> 0, nframes |-> 0]

\* An array of frames is kept as its length and the frames it repeats:
\* element i of [len, pat] is pat[((i - 1) % Len(pat)) + 1].
FrameArr(n, pat) == [len |-> n, pat |-> SubSeq(pat, 1, Min(n, Len(pat)))]

EmptyArr == [len |-> 0, pat |-> <<>>]

At(a, i) == a.pat[((i - 1) % Len(a.pat)) + 1]

\* the first k elements of a (k <= a.len)
Take(a, k) == FrameArr(k, a.pat)

\* a frame as it is stored in a slot of the layout isCANFD
ToLayout(f, isCANFD) == IF isCANFD THEN f ELSE AsCanFrame(f)

LayoutArr(a, isCANFD) ==
    [len |-> a.len,
     pat |-> [j \in 1..Len(a.pat) |-> ToLayout(a.pat[j], isCANFD)]]

\* A message buffer: a header followed by `slots` frame slots of the layout
\* `fd`; `frames` holds the slots written, the remaining slots being zero.
MsgSize(m) == HeaderSize + m.slots * FrameSize(m.fd)

SlotAt(frames, i) == IF i <= frames.len THEN At(frames, i) ELSE ZeroFrame

\* the first n slots of a buffer holding frames
View(frames, n) ==
    IF n <= frames.len
    THEN Take(frames, n)
    ELSE [len |-> n, pat |-> [i \in 1..n |-> SlotAt(frames, i)]]


Max(a, b) == IF a > b THEN a ELSE b

FdFlag(isCANFD) == IF isCANFD THEN {"CAN_FD_FRAME"} ELSE {}

-----------------------------------------------------------------------------
(* MessageCodec: the buffers the tx* operations build *)

\* a txSendSingleFrame that forgets the FD flag of the header
EncodeSendSingle_NoFdFlag(frame, isCANFD) ==
    [head  |-> [ZeroHead EXCEPT !.opcode = "TX_SEND", !.nframes = 1],
     fd    |-> isCANFD,
     slots |-> SingleFrameSlots,
     frames |-> FrameArr(1, <<ToLayout(frame, isCANFD)>>)]

\* txSendSingleFrame: the bcmMsgSingleFrameCan / bcmMsgSingleFrameCanFD
EncodeSendSingle(frame, isCANFD) ==
    [head  |-> [ZeroHead EXCEPT !.opcode = "TX_SEND",
                                !.flags = FdFlag(isCANFD),
                                !.nframes = 1],
     fd    |-> isCANFD,
     slots |-> SingleFrameSlots,
     frames |-> FrameArr(1, <<ToLayout(frame, isCANFD)>>)]

\* the number of slots of the frame array txSetupSequence writes inside
\* the array (the memcpy of nframes frames, or the loop index < nframes)
SetupWritten(nframes) == Min(Max(nframes, 0), MAXFRAMES)

\* txSetupSequence writes outside the frame array of the message
SetupOverflows(nframes, isCANFD) ==
    \/ nframes > MAXFRAMES
    \/ isCANFD /\ nframes < 0

\* msgSize of txSetupSequence: the size of the whole struct
SetupSlots(nframes) == MultipleFramesSlots

\* a txSetupSequence that sets the timer values but does not start the timer
EncodeSetup_NoStartTimer(frames, nframes, count, ival1, ival2, isCANFD) ==
    [head  |-> [ZeroHead EXCEPT !.opcode = "TX_SETUP",
                                !.flags = FdFlag(isCANFD) \cup {"SETTIMER"},
                                !.count = count,
                                !.ival1 = ival1,
                                !.ival2 = ival2,
                                !.nframes = nframes],
     fd    |-> isCANFD,
     slots |-> SetupSlots(nframes),
     frames |-> LayoutArr(Take(frames, SetupWritten(nframes)), isCANFD)]

\* txSetupSequence: the bcmMsgMultipleFramesCan / bcmMsgMultipleFramesCanFD
EncodeSetup(frames, nframes, count, ival1, ival2, isCANFD) ==
    [head  |-> [ZeroHead EXCEPT !.opcode = "TX_SETUP",
                                !.flags = FdFlag(isCANFD)
                                          \cup {"SETTIMER", "STARTTIMER"},
                                !.count = count,
                                !.ival1 = ival1,
                                !.ival2 = ival2,
                                \* int to __u32: the value itself for
                                \* the counts >= 0 drawn as inputs
                                !.nframes = nframes],
     fd    |-> isCANFD,
     slots |-> SetupSlots(nframes),
     frames |-> LayoutArr(Take(frames, SetupWritten(nframes)), isCANFD)]

\* a txDelete that leaves can_id zero
EncodeDelete_NoCanId(canID) ==
    [head  |-> [ZeroHead EXCEPT !.opcode = "TX_DELETE"],
     fd    |-> FALSE,
     slots |-> 0,
     frames |-> EmptyArr]

\* txDelete: a bare bcm_msg_head
EncodeDelete(canID) ==
    [head  |-> [ZeroHead EXCEPT !.opcode = "TX_DELETE", !.can_id = canID],
     fd    |-> FALSE,
     slots |-> 0,
     frames |-> EmptyArr]

-----------------------------------------------------------------------------
(* MessageCodec: the decode step of the receive completion *)

NoDecode ==
    [err |-> FALSE, receivedBytes |-> 0, headRead |-> FALSE,
     isCANFD |-> FALSE, expectedBytes |-> 0, accepted |-> FALSE,
     nframes |-> 0, head |-> ZeroHead, frames |-> EmptyArr, diag |-> FALSE]

\* an expected size that always counts Classic frames
ExpectedBytes_ClassicOnly(head, isCANFD) ==
    head.nframes * CanFrameSize + HeaderSize

\* the size the header in the receive buffer declares
ExpectedBytes(head, isCANFD) ==
    head.nframes * FrameSize(isCANFD) + HeaderSize

\* a decode step without the check of the header size
HeadReadable_Unchecked(receivedBytes) == TRUE

\* the header is looked at only when a whole bcm_msg_head was received
HeadReadable(receivedBytes) == receivedBytes >= HeaderSize

\* a check that accepts a datagram longer than its header declares
WholeMessage_AtLeast(receivedBytes, expectedBytes) ==
    receivedBytes >= expectedBytes

\* the whole message was received
WholeMessage(receivedBytes, expectedBytes) == receivedBytes = expectedBytes

\* The body of the completion lambda of receiveOnSocket up to and including
\* the call of handleReceivedData, on the buffer contents buf.
RxDecode(errorCode, receivedBytes, buf) ==
    IF errorCode
    THEN [NoDecode EXCEPT !.err = TRUE, !.diag = TRUE]
    ELSE IF HeadReadable(receivedBytes)
    THEN LET head == buf.head
             isCANFD == "CAN_FD_FRAME" \in head.flags
             expectedBytes == ExpectedBytes(head, isCANFD)
         IN IF WholeMessage(receivedBytes, expectedBytes)
            THEN [NoDecode EXCEPT
                    !.receivedBytes = receivedBytes, !.headRead = TRUE,
                    !.isCANFD = isCANFD, !.expectedBytes = expectedBytes,
                    !.accepted = TRUE, !.nframes = head.nframes,
                    !.head = head,
                    !.frames = View(buf.frames, head.nframes)]
            ELSE [NoDecode EXCEPT
                    !.receivedBytes = receivedBytes, !.headRead = TRUE,
                    !.isCANFD = isCANFD, !.expectedBytes = expectedBytes,
                    !.diag = TRUE]
    ELSE [NoDecode EXCEPT !.receivedBytes = receivedBytes]

\* the arguments of no call
NoArgs ==
    [op |-> "none", frames |-> EmptyArr, nframes |-> 0, count |-> 0,
     ival1 |-> ZeroIval, ival2 |-> ZeroIval, isCANFD |-> FALSE, canID |-> 0]

\* no receive completion is executing
NoCallback == [active |-> FALSE, d |-> NoDecode, src |-> NoArgs]

\* a lambda that calls receiveOnSocket() next to handleReceivedData and
\* again at its end
RxRearmCount_TwiceAfterHandling(d) == IF d.accepted THEN 2 ELSE 1

\* a lambda that returns from its error branch without a new receive
RxRearmCount_NotOnError(d) == IF d.err THEN 0 ELSE 1

\* a lambda that calls receiveOnSocket() only after handleReceivedData
RxRearmCount_OnlyAfterHandling(d) == IF d.accepted THEN 1 ELSE 0

\* a lambda that calls receiveOnSocket() in the error branch and at its end
RxRearmCount_TwiceOnError(d) == IF d.err THEN 2 ELSE 1

\* the receives the completion lambda submits before it returns
RxRearmCount(d) == 1

-----------------------------------------------------------------------------
(* The BCM socket in the kernel *)

\* the frames a cyclic task transmits
TaskFrames(m) == View(m.frames, m.head.nframes)

\* the data length the CAN core accepts in a frame of the layout fd
MaxDlen(fd) == IF fd THEN 64 ELSE CanMaxDlen

\* every frame of the array a has a data length valid for the layout fd
ValidLens(a, fd) == \A j \in 1..Len(a.pat) : a.pat[j].len <= MaxDlen(fd)

\* sendmsg on the BCM socket s with the tasks ts: [err, bytes, tasks]
KernelSendmsg(m, s, ts) ==
    LET head == m.head
        cfsiz == FrameSize("CAN_FD_FRAME" \in head.flags)
        fail == [err |-> TRUE, bytes |-> 0, tasks |-> ts]
    IN IF ~s.connected \/ (MsgSize(m) - HeaderSize) % cfsiz # 0
       THEN fail
       ELSE CASE head.opcode = "TX_SETUP" ->
                    IF \/ s.ifindex = 0
                       \/ head.nframes < 1
                       \/ head.nframes > MAXFRAMES
                       \/ ~ValidLens(TaskFrames(m),
                                     "CAN_FD_FRAME" \in head.flags)
                    THEN fail
                    ELSE [err |-> FALSE,
                          bytes |-> HeaderSize + head.nframes * cfsiz,
                          tasks |-> {t \in ts : t.can_id # head.can_id}
                                    \cup {[can_id |-> head.can_id,
                                           frames |-> TaskFrames(m)]}]
              [] head.opcode = "TX_DELETE" ->
                    IF \E t \in ts : t.can_id = head.can_id
                    THEN [err |-> FALSE, bytes |-> HeaderSize,
                          tasks |-> {t \in ts : t.can_id # head.can_id}]
                    ELSE fail
              [] head.opcode = "TX_SEND" ->
                    IF \/ s.ifindex = 0
                       \/ head.nframes # 1
                       \/ ~ValidLens(TaskFrames(m),
                                     "CAN_FD_FRAME" \in head.flags)
                    THEN fail
                    ELSE [err |-> FALSE, bytes |-> HeaderSize + cfsiz,
                          tasks |-> ts]
              [] OTHER -> fail

-----------------------------------------------------------------------------
(* Inputs *)

SetupNFrames == {0, 1, MAXFRAMES, MAXFRAMES + 1}
DeleteIds == {0, canfdFrame1.can_id}
testCount == 3

\* frameArrCAN / frameArrCANFD of handleSendingData, continued to n frames
FramesInput(n, isCANFD) ==
    FrameArr(n, IF isCANFD THEN <<canfdFrame1, canfdFrame2>>
                           ELSE <<canFrame1, canFrame2>>)

\* the counts txSendMultipleFrames is called with
MultipleNFrames == {0, 2}

\* the arrays txSendMultipleFrames is called with: the test arrays, and an
\* array whose first frame has a data length no Classic frame can have
MultipleInput(n, isCANFD) ==
    {FramesInput(n, isCANFD), FrameArr(n, <<canfdFrame1, canFrame1>>)}

RxHead(flags, canId, nframes) ==
    [ZeroHead EXCEPT !.opcode = "RX_CHANGED", !.flags = flags,
                     !.can_id = canId, !.nframes = nframes]

Datagram(len, head, frames) ==
    [err |-> FALSE, len |-> len, head |-> head, frames |-> frames,
     src |-> NoArgs]

\* what the kernel may deliver on the socket
InboundDatagrams ==
    { \* fewer bytes than a bcm_msg_head
      Datagram(HeaderSize - 1, RxHead({}, canFrame1.can_id, 1), EmptyArr),
      \* one Classic frame, one FD frame
      Datagram(HeaderSize + CanFrameSize,
               RxHead({}, canFrame1.can_id, 1), FrameArr(1, <<canFrame1>>)),
      Datagram(HeaderSize + CanFdFrameSize,
               RxHead({"CAN_FD_FRAME"}, canfdFrame1.can_id, 1),
               FrameArr(1, <<canfdFrame1>>)),
      \* two frames declared, one received
      Datagram(HeaderSize + CanFrameSize,
               RxHead({}, canFrame1.can_id, 2), FrameArr(1, <<canFrame1>>)),
      \* the FD flag with the bytes of a Classic frame
      Datagram(HeaderSize + CanFrameSize,
               RxHead({"CAN_FD_FRAME"}, canFrame1.can_id, 1),
               FrameArr(1, <<canFrame1>>)),
      \* the receive fails
      [Datagram(0, ZeroHead, EmptyArr) EXCEPT !.err = TRUE] }

\* a message of the connector coming back on the socket
Echo(m, args) ==
    [err |-> FALSE, len |-> MsgSize(m), head |-> m.head,
     frames |-> m.frames, src |-> args]

\* a datagram or error whose receive completion ends in handleReceivedData
WellFormed(d) ==
    /\ ~d.err
    /\ d.len >= HeaderSize
    /\ d.len = HeaderSize
               + d.head.nframes * FrameSize("CAN_FD_FRAME" \in d.head.flags)

-----------------------------------------------------------------------------
(* Initial state: before the constructor runs *)

Init ==
    /\ appPc = "ctorSocket"
    /\ crashed = FALSE
    /\ sock = [ifindex |-> 0, connected |-> FALSE]
    /\ ioStopped = FALSE
    /\ workerPc = "none"
    /\ rxOutstanding = 0
    /\ sockQueue = <<>>
    /\ rxBuffer = [len |-> 0, head |-> ZeroHead, frames |-> EmptyArr]
    /\ cb = NoCallback
    /\ malformedSeen = FALSE
    /\ sendOps = <<>>
    /\ tasks = {}
    /\ nInputs = 0
    /\ sendsDropped = 0
    /\ calls = [stop |-> 0, join |-> 0]
    /\ sockUsers = {}

-----------------------------------------------------------------------------
(* Construction *)

\* a constructor that starts the worker before it arms the first receive
AfterCtorStep_StartFirst(pc) ==
    CASE pc = "ctorSocket" -> "ctorConnect"
      [] pc = "ctorConnect" -> "ctorStart"
      [] pc = "ctorStart" -> "ctorReceive"
      [] OTHER -> "ready"

\* a constructor that starts the worker without arming a receive
AfterCtorStep_NoReceive(pc) ==
    CASE pc = "ctorSocket" -> "ctorConnect"
      [] pc = "ctorConnect" -> "ctorStart"
      [] OTHER -> "ready"

\* the order of the constructor's steps: createBcmSocket (resolve the
\* interface, connect), receiveOnSocket, startProcessing
AfterCtorStep(pc) ==
    CASE pc = "ctorSocket" -> "ctorConnect"
      [] pc = "ctorConnect" -> "ctorReceive"
      [] pc = "ctorReceive" -> "ctorStart"
      [] OTHER -> "ready"

\* createBcmSocket: resolve the interface name; an error is only printed
ResolveInterface ==
    /\ ~crashed
    /\ appPc = "ctorSocket"
    /\ \E resolveOk \in BOOLEAN :
          sock' = [sock EXCEPT !.ifindex = IF resolveOk THEN VcanIndex ELSE 0]
    /\ appPc' = AfterCtorStep(appPc)
    /\ UNCHANGED <<crashed, ioStopped, workerPc, rxOutstanding, sockQueue,
                   rxBuffer, cb, malformedSeen, sendOps, tasks, nInputs>>
    /\ UNCHANGED <<sendsDropped, calls, sockUsers>>

\* createBcmSocket: connect to the index obtained; an error is only printed
ConnectSocket ==
    /\ ~crashed
    /\ appPc = "ctorConnect"
    /\ \E connectOk \in BOOLEAN :
          sock' = [sock EXCEPT !.connected = connectOk]
    /\ appPc' = AfterCtorStep(appPc)
    /\ UNCHANGED <<crashed, ioStopped, workerPc, rxOutstanding, sockQueue,
                   rxBuffer, cb, malformedSeen, sendOps, tasks, nInputs>>
    /\ UNCHANGED <<sendsDropped, calls, sockUsers>>

\* the constructor's receiveOnSocket()
CtorReceiveOnSocket ==
    /\ ~crashed
    /\ appPc = "ctorReceive"
    /\ rxOutstanding' = rxOutstanding + 1
    /\ appPc' = AfterCtorStep(appPc)
    /\ UNCHANGED <<crashed, sock, ioStopped, workerPc, sockQueue, rxBuffer,
                   cb, malformedSeen, sendOps, tasks, nInputs>>
    /\ UNCHANGED <<sendsDropped, calls, sockUsers>>

\* startProcessing(): create ioContextThread
StartProcessing ==
    /\ ~crashed
    /\ appPc = "ctorStart"
    /\ workerPc' = "spawned"
    /\ appPc' = AfterCtorStep(appPc)
    /\ UNCHANGED <<crashed, sock, ioStopped, rxOutstanding, sockQueue,
                   rxBuffer, cb, malformedSeen, sendOps, tasks, nInputs>>
    /\ UNCHANGED <<sendsDropped, calls, sockUsers>>

-----------------------------------------------------------------------------
(* The tx* operations (application thread) *)

CallArgs(op, frames, nframes, count, ival1, ival2, isCANFD, canID) ==
    [op |-> op, frames |-> frames, nframes |-> nframes, count |-> count,
     ival1 |-> ival1, ival2 |-> ival2, isCANFD |-> isCANFD, canID |-> canID]

\* bcmSocket.async_send(buffer, handler): the sendmsg is made at once with
\* result r, the handler is queued for the worker and keeps the message m
\* alive. args and idx record the call the send was made by.
SendOp(m, r, args, idx) ==
    [msg |-> m, err |-> r.err, bytes |-> r.bytes, args |-> args,
     idx |-> idx]

\* body of txSendSingleFrame
DoSendSingle(frame, isCANFD) ==
    LET m == EncodeSendSingle(frame, isCANFD)
        r == KernelSendmsg(m, sock, tasks)
        args == CallArgs("txSendSingleFrame", FrameArr(1, <<frame>>), 1, 0,
                         ZeroIval, ZeroIval, isCANFD, 0)
    IN /\ sendOps' = Append(sendOps, SendOp(m, r, args, 1))
       /\ tasks' = r.tasks
       /\ UNCHANGED crashed

\* a txSendMultipleFrames that gives up at the first frame the socket
\* refuses
DoSendMultiple_StopAtFailure(frames, nframes, isCANFD) ==
    LET args == CallArgs("txSendMultipleFrames", frames, nframes, 0,
                         ZeroIval, ZeroIval, isCANFD, 0)
        msg(i) == EncodeSendSingle(At(frames, i), isCANFD)
        res(i) == KernelSendmsg(msg(i), sock, tasks)
        sent == {i \in 1..Max(nframes, 0) :
                   \A j \in 1..(i - 1) : ~res(j).err}
    IN /\ sendOps' = sendOps \o
                     [i \in 1..Cardinality(sent) |->
                        SendOp(msg(i), res(i), args, i)]
       /\ UNCHANGED <<tasks, crashed>>

\* body of txSendMultipleFrames: one txSendSingleFrame per frame
DoSendMultiple(frames, nframes, isCANFD) ==
    LET args == CallArgs("txSendMultipleFrames", frames, nframes, 0,
                         ZeroIval, ZeroIval, isCANFD, 0)
        msg(i) == EncodeSendSingle(At(frames, i), isCANFD)
    IN /\ sendOps' = sendOps \o
                     [i \in 1..Max(nframes, 0) |->
                        SendOp(msg(i), KernelSendmsg(msg(i), sock, tasks),
                               args, i)]
       /\ UNCHANGED <<tasks, crashed>>

\* body of txSetupSequence; a write outside the frame array either kills
\* the process or goes unnoticed
DoSetupSequence(frames, nframes, count, ival1, ival2, isCANFD) ==
    LET m == EncodeSetup(frames, nframes, count, ival1, ival2, isCANFD)
        r == KernelSendmsg(m, sock, tasks)
        args == CallArgs("txSetupSequence", frames, nframes, count, ival1,
                         ival2, isCANFD, 0)
    IN \/ /\ SetupOverflows(nframes, isCANFD)
          /\ crashed' = TRUE
          /\ UNCHANGED <<sendOps, tasks>>
       \/ /\ sendOps' = Append(sendOps, SendOp(m, r, args, 1))
          /\ tasks' = r.tasks
          /\ UNCHANGED crashed

\* body of txDelete
DoDelete(canID) ==
    LET m == EncodeDelete(canID)
        r == KernelSendmsg(m, sock, tasks)
        args == CallArgs("txDelete", EmptyArr, 0, 0, ZeroIval, ZeroIval,
                         FALSE, canID)
    IN /\ sendOps' = Append(sendOps, SendOp(m, r, args, 1))
       /\ tasks' = r.tasks
       /\ UNCHANGED crashed

CanCall == ~crashed /\ appPc = "ready" /\ nInputs < MaxInputs

TxSendSingleFrame ==
    /\ CanCall
    /\ \E isCANFD \in BOOLEAN :
          DoSendSingle(At(FramesInput(1, isCANFD), 1), isCANFD)
    /\ nInputs' = nInputs + 1
    /\ UNCHANGED <<appPc, sock, ioStopped, workerPc, rxOutstanding,
                   sockQueue, rxBuffer, cb, malformedSeen>>
    /\ UNCHANGED <<sendsDropped, calls, sockUsers>>

TxSendMultipleFrames ==
    /\ CanCall
    /\ \E isCANFD \in BOOLEAN :
       \E n \in MultipleNFrames :
       \E frames \in MultipleInput(n, isCANFD) :
          DoSendMultiple(frames, n, isCANFD)
    /\ nInputs' = nInputs + 1
    /\ UNCHANGED <<appPc, sock, ioStopped, workerPc, rxOutstanding,
                   sockQueue, rxBuffer, cb, malformedSeen>>
    /\ UNCHANGED <<sendsDropped, calls, sockUsers>>

TxSetupSequence ==
    /\ CanCall
    /\ \E isCANFD \in BOOLEAN :
       \E nframes \in SetupNFrames :
          DoSetupSequence(FramesInput(nframes, isCANFD), nframes, testCount,
                          testIval1, testIval2, isCANFD)
    /\ nInputs' = nInputs + 1
    /\ UNCHANGED <<appPc, sock, ioStopped, workerPc, rxOutstanding,
                   sockQueue, rxBuffer, cb, malformedSeen>>
    /\ UNCHANGED <<sendsDropped, calls, sockUsers>>

TxDelete ==
    /\ CanCall
    /\ \E canID \in DeleteIds : DoDelete(canID)
    /\ nInputs' = nInputs + 1
    /\ UNCHANGED <<appPc, sock, ioStopped, workerPc, rxOutstanding,
                   sockQueue, rxBuffer, cb, malformedSeen>>
    /\ UNCHANGED <<sendsDropped, calls, sockUsers>>

\* handleSendingData up to its sleep: txSetupSequence(&canfdFrame1, 1, ...)
HandleSendingDataSetup ==
    /\ CanCall
    /\ DoSetupSequence(FrameArr(1, <<canfdFrame1>>), 1, testCount,
                       testIval1, testIval2, TRUE)
    /\ appPc' = "hsdSleep"
    /\ nInputs' = nInputs + 1
    /\ UNCHANGED <<sock, ioStopped, workerPc, rxOutstanding, sockQueue,
                   rxBuffer, cb, malformedSeen>>
    /\ UNCHANGED <<sendsDropped, calls, sockUsers>>

\* handleSendingData after its sleep: txDelete(0x567)
HandleSendingDataDelete ==
    /\ ~crashed
    /\ appPc = "hsdSleep"
    /\ DoDelete(canfdFrame1.can_id)
    /\ appPc' = "ready"
    /\ UNCHANGED <<sock, ioStopped, workerPc, rxOutstanding, sockQueue,
                   rxBuffer, cb, malformedSeen, nInputs>>
    /\ UNCHANGED <<sendsDropped, calls, sockUsers>>

-----------------------------------------------------------------------------
(* The socket's inbound side *)

SocketOpen ==
    appPc \in {"ctorReceive", "ctorStart", "ready", "hsdSleep", "join",
              "stopJoin", "stopped", "joinAgain", "dtorMembers"}

\* the kernel queues a datagram (or an error) on the socket
Arrive ==
    /\ ~crashed
    /\ SocketOpen /\ sock.connected
    /\ nInputs < MaxInputs
    /\ \E d \in InboundDatagrams : sockQueue' = Append(sockQueue, d)
    /\ nInputs' = nInputs + 1
    /\ UNCHANGED <<appPc, crashed, sock, ioStopped, workerPc, rxOutstanding,
                   rxBuffer, cb, malformedSeen, sendOps, tasks>>
    /\ UNCHANGED <<sendsDropped, calls, sockUsers>>

\* a buffer the connector has sent comes back on the socket
Loopback ==
    /\ ~crashed
    /\ SocketOpen /\ sock.connected
    /\ nInputs < MaxInputs
    /\ \E i \in 1..Len(sendOps) :
          sockQueue' = Append(sockQueue,
                              Echo(sendOps[i].msg, sendOps[i].args))
    /\ nInputs' = nInputs + 1
    /\ UNCHANGED <<appPc, crashed, sock, ioStopped, workerPc, rxOutstanding,
                   rxBuffer, cb, malformedSeen, sendOps, tasks>>
    /\ UNCHANGED <<sendsDropped, calls, sockUsers>>

-----
(* The worker thread: ioContextThreadFunction and the completion handlers *)

\* the thread reaches context->run()
WorkerEnterRun ==
    /\ ~crashed
    /\ workerPc = "spawned"
    /\ workerPc' = "run"
    /\ UNCHANGED <<appPc, crashed, sock, ioStopped, rxOutstanding, sockQueue,
                   rxBuffer, cb, malformedSeen, sendOps, tasks, nInputs>>
    /\ UNCHANGED <<sendsDropped, calls, sockUsers>>

\* rxBuffer after a receive of datagram d
Received(buf, d) ==
    IF d.err THEN buf
    ELSE IF d.len >= HeaderSize
         THEN [len |-> Min(d.len, RxBufferSize), head |-> d.head,
               frames |-> d.frames]
         ELSE [buf EXCEPT !.len = d.len]

\* a receive that leaves the datagram in the socket
RxFlags_Peek == {"MSG_PEEK"}

\* bcmSocket.async_receive(buffer, handler): no message flags
RxFlags == {}

\* the pending receive completes and its lambda runs up to the end of the
\* decode step (handleReceivedData is executing if it was accepted)
RxCompletion ==
    /\ ~crashed
    /\ workerPc = "run" /\ ~ioStopped
    /\ rxOutstanding > 0
    /\ sockQueue # <<>>
    /\ LET d == Head(sockQueue)
           buf == Received(rxBuffer, d)
           dec == RxDecode(d.err, buf.len, buf)
       IN /\ rxBuffer' = buf
          /\ cb' = [active |-> TRUE, d |-> dec, src |-> d.src]
          /\ malformedSeen' = (malformedSeen \/ (~d.err /\ ~dec.accepted))
    /\ sockQueue' = IF "MSG_PEEK" \in RxFlags THEN sockQueue
                     ELSE Tail(sockQueue)
    /\ rxOutstanding' = rxOutstanding - 1
    /\ workerPc' = "rxCallback"
    /\ UNCHANGED <<appPc, crashed, sock, ioStopped, sendOps, tasks, nInputs>>
    /\ UNCHANGED <<sendsDropped, calls, sockUsers>>

\* the end of the lambda: receiveOnSocket()
RxRearm ==
    /\ ~crashed
    /\ workerPc = "rxCallback"
    /\ rxOutstanding' = rxOutstanding + RxRearmCount(cb.d)
    /\ cb' = NoCallback
    /\ workerPc' = "run"
    /\ UNCHANGED <<appPc, crashed, sock, ioStopped, sockQueue, rxBuffer,
                   malformedSeen, sendOps, tasks, nInputs>>
    /\ UNCHANGED <<sendsDropped, calls, sockUsers>>

\* what the completion lambda of an async_send prints
SendHandlerOutput(errorCode) ==
    IF errorCode THEN "failed" ELSE "completed successfully"

\* the completion lambda of an async_send runs and releases the message
SendCompletion ==
    /\ ~crashed
    /\ workerPc = "run" /\ ~ioStopped
    /\ sendOps # <<>>
    /\ sendOps' = Tail(sendOps)
    /\ UNCHANGED <<appPc, crashed, sock, ioStopped, workerPc, rxOutstanding,
                   sockQueue, rxBuffer, cb, malformedSeen, tasks, nInputs>>
    /\ UNCHANGED <<sendsDropped, calls, sockUsers>>

\* context->run() returns: the context was stopped or has no work left
WorkerExit ==
    /\ ~crashed
    /\ workerPc = "run"
    /\ ioStopped \/ (rxOutstanding = 0 /\ sendOps = <<>>)
    /\ workerPc' = "exited"
    /\ UNCHANGED <<appPc, crashed, sock, ioStopped, rxOutstanding, sockQueue,
                   rxBuffer, cb, malformedSeen, sendOps, tasks, nInputs>>
    /\ UNCHANGED <<sendsDropped, calls, sockUsers>>

-----------------------------------------------------------------------------
(* Stopping and destruction *)

\* a stopProcessing that returns without joining the thread
Joinable_Never(wpc) == FALSE

\* a stopProcessing that joins the thread whatever its state
Joinable_Always(wpc) == TRUE

\* ioContextThread.joinable(): a thread was started and not yet joined
Joinable(wpc) == wpc \in {"spawned", "run", "rxCallback", "exited"}

\* a stopProcessing that joins without stopping the context
StopNeeded_Never(stopped) == FALSE

\* if(!ioContext->stopped())
StopNeeded(stopped) == ~stopped

\* a stopProcessing that also deletes the cyclic tasks of the socket
StopProcessingBegin_DeletesTasks(from, joining, done) ==
    /\ appPc = from
    /\ ioStopped' = (ioStopped \/ StopNeeded(ioStopped))
    /\ calls' = [stop |-> calls.stop
                          + (IF StopNeeded(ioStopped) THEN 1 ELSE 0),
                 join |-> calls.join
                          + (IF Joinable(workerPc) THEN 1 ELSE 0)]
    /\ appPc' = IF Joinable(workerPc) THEN joining ELSE done
    /\ tasks' = {}
    /\ UNCHANGED <<crashed, sock, workerPc, rxOutstanding, sockQueue,
                   rxBuffer, cb, malformedSeen, sendOps, nInputs,
                   sendsDropped, sockUsers>>

\* stopProcessing up to the join: stop the context unless it is stopped,
\* then wait in join (joining) or, the thread not being joinable, print
\* the error and return (done)
StopProcessingBegin(from, joining, done) ==
    /\ appPc = from
    /\ ioStopped' = (ioStopped \/ StopNeeded(ioStopped))
    /\ calls' = [stop |-> calls.stop
                          + (IF StopNeeded(ioStopped) THEN 1 ELSE 0),
                 join |-> calls.join
                          + (IF Joinable(workerPc) THEN 1 ELSE 0)]
    /\ appPc' = IF Joinable(workerPc) THEN joining ELSE done
    /\ UNCHANGED <<crashed, sock, workerPc, rxOutstanding, sockQueue,
                   rxBuffer, cb, malformedSeen, sendOps, tasks, nInputs,
                   sendsDropped, sockUsers>>

\* the members are destroyed: the socket is closed and the handlers still
\* queued in the io_context are destroyed without being invoked
DestroyMembers ==
    /\ appPc' = "destroyed"
    /\ sock' = [sock EXCEPT !.connected = FALSE]
    /\ rxOutstanding' = 0
    /\ sendsDropped' = sendsDropped + Len(sendOps)
    /\ sendOps' = <<>>
    /\ sockQueue' = <<>>

\* ~CANConnector -> stopProcessing(): ioContext->stop()
DtorStop ==
    /\ ~crashed
    /\ StopProcessingBegin("ready", "join", "dtorMembers")

\* ioContextThread.join() returns, stopProcessing and the destructor body
\* return, the members are destroyed
DtorJoin ==
    /\ ~crashed
    /\ appPc = "join"
    /\ workerPc = "exited"
    /\ workerPc' = "joined"
    /\ DestroyMembers
    /\ UNCHANGED <<crashed, ioStopped, rxBuffer, cb, malformedSeen, tasks,
                   nInputs, calls, sockUsers>>

\* stopProcessing() called on the connector before it is destroyed
StopProcessing ==
    /\ ~crashed
    /\ StopProcessingBegin("ready", "stopJoin", "stopped")

\* ioContextThread.join() of that call returns
StopProcessingJoin ==
    /\ ~crashed
    /\ appPc = "stopJoin"
    /\ workerPc = "exited"
    /\ workerPc' = "joined"
    /\ appPc' = "stopped"
    /\ UNCHANGED <<crashed, sock, ioStopped, rxOutstanding, sockQueue,
                   rxBuffer, cb, malformedSeen, sendOps, tasks, nInputs,
                   sendsDropped, calls, sockUsers>>

\* txSendSingleFrame called on the connector after stopProcessing returned
TxSendAfterStop ==
    /\ ~crashed
    /\ appPc = "stopped"
    /\ nInputs < MaxInputs
    /\ \E isCANFD \in BOOLEAN :
          DoSendSingle(At(FramesInput(1, isCANFD), 1), isCANFD)
    /\ nInputs' = nInputs + 1
    /\ UNCHANGED <<appPc, sock, ioStopped, workerPc, rxOutstanding,
                   sockQueue, rxBuffer, cb, malformedSeen, sendsDropped,
                   calls, sockUsers>>

\* ~CANConnector -> stopProcessing() on a connector already stopped: the
\* second call of stopProcessing
DtorStopAgain ==
    /\ ~crashed
    /\ StopProcessingBegin("stopped", "joinAgain", "dtorMembers")

\* the destructor body returns after that call, the members are destroyed
DtorMembers ==
    /\ ~crashed
    /\ appPc = "dtorMembers"
    /\ DestroyMembers
    /\ UNCHANGED <<crashed, ioStopped, workerPc, rxBuffer, cb, malformedSeen,
                   tasks, nInputs, calls, sockUsers>>

-----------------------------------------------------------------------------

Next ==
    \/ ResolveInterface
    \/ ConnectSocket
    \/ CtorReceiveOnSocket
    \/ StartProcessing
    \/ TxSendSingleFrame
    \/ TxSendMultipleFrames
    \/ TxSetupSequence
    \/ TxDelete
    \/ HandleSendingDataSetup
    \/ HandleSendingDataDelete
    \/ Arrive
    \/ Loopback
    \/ WorkerEnterRun
    \/ RxCompletion
    \/ RxRearm
    \/ SendCompletion
    \/ WorkerExit
    \/ DtorStop
    \/ DtorJoin
    \/ StopProcessing
    \/ StopProcessingJoin
    \/ TxSendAfterStop
    \/ DtorStopAgain
    \/ DtorMembers

Spec == Init /\ [][Next]_vars

\* the worker thread is scheduled, the io_context runs every handler that
\* is ready, and a join returns once the thread has exited
LiveSpec ==
    /\ Spec
    /\ WF_vars(WorkerEnterRun)
    /\ WF_vars(RxCompletion)
    /\ WF_vars(RxRearm)
    /\ WF_vars(SendCompletion)
    /\ WF_vars(WorkerExit)
    /\ WF_vars(DtorJoin)

-----------------------------------------------------------------------------
(* Calls from several application threads, at the grain of the calls the
   threads make on bcmSocket: a thread is in sockUsers from the moment it
   enters async_send or async_receive until the operation is submitted.
   Nothing in the connector orders these calls. *)

AppThreads == {"app1", "app2"}

\* a thread calls txSendSingleFrame, txSetupSequence or txDelete and reaches
\* its bcmSocket.async_send
CallEnter ==
    /\ ~crashed
    /\ appPc = "ready"
    /\ nInputs < MaxInputs
    /\ \E t \in AppThreads \ sockUsers : sockUsers' = sockUsers \cup {t}
    /\ nInputs' = nInputs + 1
    /\ UNCHANGED <<appPc, crashed, sock, ioStopped, workerPc, rxOutstanding,
                   sockQueue, rxBuffer, cb, malformedSeen, sendOps, tasks,
                   sendsDropped, calls>>

\* the async_send of that call submits the send and returns
CallSubmit ==
    /\ ~crashed
    /\ \E t \in AppThreads \cap sockUsers :
          /\ sockUsers' = sockUsers \ {t}
          /\ \/ \E isCANFD \in BOOLEAN :
                   DoSendSingle(At(FramesInput(1, isCANFD), 1), isCANFD)
             \/ DoSetupSequence(FrameArr(1, <<canfdFrame1>>), 1, testCount,
                                testIval1, testIval2, TRUE)
             \/ \E canID \in DeleteIds : DoDelete(canID)
    /\ UNCHANGED <<appPc, sock, ioStopped, workerPc, rxOutstanding,
                   sockQueue, rxBuffer, cb, malformedSeen, nInputs,
                   sendsDropped, calls>>

\* the end of the receive lambda: receiveOnSocket() reaches its
\* bcmSocket.async_receive
RearmEnter ==
    /\ ~crashed
    /\ workerPc = "rxCallback"
    /\ workerPc' = "rearming"
    /\ sockUsers' = sockUsers \cup {"worker"}
    /\ UNCHANGED <<appPc, crashed, sock, ioStopped, rxOutstanding, sockQueue,
                   rxBuffer, cb, malformedSeen, sendOps, tasks, nInputs,
                   sendsDropped, calls>>

\* that async_receive submits the receive and the lambda returns
RearmSubmit ==
    /\ ~crashed
    /\ workerPc = "rearming"
    /\ rxOutstanding' = rxOutstanding + RxRearmCount(cb.d)
    /\ cb' = NoCallback
    /\ workerPc' = "run"
    /\ sockUsers' = sockUsers \ {"worker"}
    /\ UNCHANGED <<appPc, crashed, sock, ioStopped, sockQueue, rxBuffer,
                   malformedSeen, sendOps, tasks, nInputs, sendsDropped,
                   calls>>

RaceNext ==
    \/ ResolveInterface
    \/ ConnectSocket
    \/ CtorReceiveOnSocket
    \/ StartProcessing
    \/ CallEnter
    \/ CallSubmit
    \/ Arrive
    \/ WorkerEnterRun
    \/ RxCompletion
    \/ RearmEnter
    \/ RearmSubmit
    \/ SendCompletion

RaceSpec == Init /\ [][RaceNext]_vars

-----------------------------------------------------------------------------
(* Properties *)

Constructed == appPc \in {"ready", "hsdSleep"}

Ops == {sendOps[i] : i \in 1..Len(sendOps)}

OpsOf(name) == {op \in Ops : op.args.op = name}

ValidNFrames(n) == 1 <= n /\ n <= MAXFRAMES

\* the completion running now discards a datagram that was received
Discarding == cb.active /\ ~cb.d.err /\ ~cb.d.accepted

\* C1: from the end of construction until stop is requested at most one
\* receive is outstanding, and exactly one whenever no receive completion
\* is executing.
C1_OneReceiveOutstanding ==
    (Constructed /\ ~ioStopped) =>
        /\ rxOutstanding <= 1
        /\ ~cb.active => rxOutstanding = 1

\* a malformed datagram was discarded and the receive is armed again
C1_Witness ==
    /\ Constructed /\ ~ioStopped
    /\ malformedSeen /\ ~cb.active /\ rxOutstanding = 1

\* C2: a completion that discards a malformed datagram submits a receive
\* before it returns, and a well-formed notification waiting on the socket
\* is then handed to handleReceivedData (unless the loop is stopped or the
\* process is gone).
C2_MalformedKeepsReceiving ==
    /\ [][(Discarding /\ ~cb'.active) => rxOutstanding' = rxOutstanding + 1]_vars
    /\ [][(/\ malformedSeen
           /\ sockQueue # <<>> /\ WellFormed(Head(sockQueue))
           /\ workerPc' = "rxCallback" /\ workerPc = "run")
          => (cb'.active /\ cb'.d.accepted)]_vars
    /\ (malformedSeen /\ \E i \in 1..Len(sockQueue) : WellFormed(sockQueue[i]))
          ~> \/ ~\E i \in 1..Len(sockQueue) : WellFormed(sockQueue[i])
             \/ ioStopped
             \/ crashed

\* handleReceivedData runs for a notification that came after a malformed one
C2_Witness == malformedSeen /\ cb.active /\ cb.d.accepted /\ ~ioStopped

\* C3: the buffer txSetupSequence submits for 1 <= nframes <= 256 has the
\* length headerSize + nframes * frameSize(isCANFD).
C3_SetupBufferLength ==
    \A op \in OpsOf("txSetupSequence") :
        ValidNFrames(op.args.nframes) =>
            MsgSize(op.msg) = HeaderSize
                              + op.args.nframes * FrameSize(op.args.isCANFD)

\* C4: txSetupSequence with nframes outside 1..256 submits no send.
C4_InvalidNFramesNotSent ==
    \A op \in OpsOf("txSetupSequence") : ValidNFrames(op.args.nframes)

\* C5: the buffer of a txSetupSequence with 1 <= nframes <= 256, fed to the
\* decode step with its submitted length, is accepted and yields the header
\* fields and the frames of the call.
C5_SetupRoundTrip ==
    (cb.active /\ cb.src.op = "txSetupSequence"
               /\ ValidNFrames(cb.src.nframes)) =>
        /\ cb.d.accepted
        /\ cb.d.head.opcode = "TX_SETUP"
        /\ cb.d.head.flags = FdFlag(cb.src.isCANFD)
                             \cup {"SETTIMER", "STARTTIMER"}
        /\ cb.d.head.count = cb.src.count
        /\ cb.d.head.ival1 = cb.src.ival1
        /\ cb.d.head.ival2 = cb.src.ival2
        /\ cb.d.head.nframes = cb.src.nframes
        /\ cb.d.nframes = cb.src.nframes
        /\ \A i \in 1..cb.src.nframes :
              At(cb.d.frames, i) = At(cb.src.frames, i)

\* C6: a receive completion with receivedBytes < headerSize reads no header
\* field, interprets no frame and does not call handleReceivedData.
C6_ShortDatagramDiscarded ==
    (cb.active /\ ~cb.d.err /\ cb.d.receivedBytes < HeaderSize) =>
        /\ ~cb.d.headRead
        /\ ~cb.d.accepted
        /\ cb.d.frames = EmptyArr

\* the completion of a datagram shorter than the header is executing
C6_Witness ==
    /\ cb.active /\ ~cb.d.err
    /\ 0 < cb.d.receivedBytes /\ cb.d.receivedBytes < HeaderSize

\* the size the header now in rxBuffer declares, by its own FD flag
DeclaredBytes ==
    HeaderSize + rxBuffer.head.nframes
                 * FrameSize("CAN_FD_FRAME" \in rxBuffer.head.flags)

\* C7: a receive completion with receivedBytes >= headerSize and
\* receivedBytes different from the size its header declares (frame size by
\* the header's FD flag) does not call handleReceivedData and interprets no
\* frame.
C7_SizeMismatchDiscarded ==
    (cb.active /\ ~cb.d.err /\ rxBuffer.len >= HeaderSize
               /\ rxBuffer.len # DeclaredBytes) =>
        /\ ~cb.d.accepted
        /\ cb.d.frames = EmptyArr

\* the completion of a datagram with the FD flag and the size of one
\* Classic frame is executing
C7_Witness ==
    /\ cb.active /\ ~cb.d.err
    /\ "CAN_FD_FRAME" \in rxBuffer.head.flags
    /\ rxBuffer.len = HeaderSize + rxBuffer.head.nframes * CanFrameSize
    /\ rxBuffer.len # DeclaredBytes

\* C8: txSendSingleFrame(f, isCANFD) submits exactly one buffer, of length
\* headerSize + frameSize(isCANFD), with opcode TX_SEND, nframes 1, the FD
\* flag iff isCANFD and the one frame f; on success the completion is given
\* that byte count.
C8_SendSingleFrame ==
    /\ [](\A op \in OpsOf("txSendSingleFrame") :
            /\ MsgSize(op.msg) = HeaderSize + FrameSize(op.args.isCANFD)
            /\ op.msg.head.opcode = "TX_SEND"
            /\ op.msg.head.nframes = 1
            /\ ("CAN_FD_FRAME" \in op.msg.head.flags) <=> op.args.isCANFD
            /\ op.msg.slots = 1
            /\ op.msg.frames = op.args.frames
            /\ ~op.err => op.bytes = MsgSize(op.msg))
    /\ [][TxSendSingleFrame => Len(sendOps') = Len(sendOps) + 1]_vars

\* a TX_SEND of an FD frame was accepted by the socket
C8_Witness ==
    \E op \in OpsOf("txSendSingleFrame") : op.args.isCANFD /\ ~op.err

\* C9: txDelete(canID) submits exactly one buffer, of length headerSize,
\* with opcode TX_DELETE, can_id = canID and no frames, whether or not a
\* cyclic task for canID exists.
C9_Delete ==
    /\ [](\A op \in OpsOf("txDelete") :
            /\ MsgSize(op.msg) = HeaderSize
            /\ op.msg.head.opcode = "TX_DELETE"
            /\ op.msg.head.can_id = op.args.canID
            /\ op.msg.head.nframes = 0
            /\ op.msg.frames = EmptyArr)
    /\ [][TxDelete => Len(sendOps') = Len(sendOps) + 1]_vars

\* a TX_DELETE for an id no task was set up for
C9_Witness ==
    \E op \in OpsOf("txDelete") :
        /\ op.args.canID = canfdFrame1.can_id
        /\ sock.connected /\ sock.ifindex # 0
        /\ op.err /\ tasks = {}

\* C10: once txDelete(c) is the last message sent, no cyclic task set up for
\* a frame with arbitration id c remains in the kernel.
C10_DeleteRemovesTask ==
    (sendOps # <<>> /\ sendOps[Len(sendOps)].args.op = "txDelete") =>
        \A t \in tasks :
            t.frames.len >= 1 =>
                At(t.frames, 1).can_id # sendOps[Len(sendOps)].args.canID

\* createBcmSocket has returned and the object is not yet destroyed
SocketCreated == appPc \notin {"ctorSocket", "ctorConnect", "destroyed"}

\* C11: when the connect of the BCM socket fails the connector does not
\* proceed: no receive is armed, the worker is not started and no send is
\* accepted on the channel.
C11_ConnectFailureStops ==
    (SocketCreated /\ ~sock.connected) =>
        /\ rxOutstanding = 0
        /\ ~cb.active
        /\ workerPc = "none"
        /\ sendOps = <<>>

\* C12: when the interface name does not resolve, construction fails: no
\* connect is made with the unresolved index, no receive is armed, the
\* worker is not started and no connector comes into use.
C12_ResolveFailureAborts ==
    (SocketCreated /\ sock.ifindex = 0) =>
        /\ ~sock.connected
        /\ rxOutstanding = 0
        /\ ~cb.active
        /\ workerPc = "none"
        /\ ~Constructed

\* C13: every send that was submitted has its completion handler invoked
\* exactly once, stop and destruction with sends outstanding included: no
\* handler is destroyed without having been invoked.
C13_SendHandlerInvokedOnce == sendsDropped = 0

\* a step in which the worker runs the handler of the oldest send
HandlerRuns ==
    /\ workerPc = "run" /\ workerPc' = "run" /\ ~ioStopped
    /\ sendOps # <<>> /\ sendOps' = Tail(sendOps)

\* C14: destroying a constructed connector terminates: once the destructor
\* has entered stopProcessing the join returns and the object is destroyed,
\* in every interleaving with the worker, and the worker thread has exited
\* and is joined when the destructor has returned.
C14_DestructionTerminates ==
    /\ (appPc = "join") ~> (appPc = "destroyed")
    /\ [](appPc = "destroyed" => (workerPc = "joined" /\ ioStopped))
    /\ [][(appPc = "join" /\ appPc' # "join") => workerPc = "exited"]_vars

\* the destructor has returned although a send was outstanding when it ran
C14_Witness ==
    /\ appPc = "destroyed" /\ workerPc = "joined"
    /\ calls = [stop |-> 1, join |-> 1]
    /\ sendsDropped > 0

\* C15: a second call of stopProcessing, on a connector whose loop is
\* stopped and whose worker is joined, returns without blocking, calls
\* neither stop nor join, and leaves the loop, the worker, the socket and
\* the outstanding operations as they were.
C15_StopIdempotent ==
    [][(appPc = "stopped" /\ appPc' # "stopped") =>
          /\ appPc' = "dtorMembers"
          /\ UNCHANGED <<ioStopped, workerPc, sock, rxOutstanding, sockQueue,
                         rxBuffer, cb, sendOps, tasks, sendsDropped, calls>>
      ]_vars

\* the second call has returned with a receive and a send still outstanding
C15_Witness ==
    /\ appPc = "dtorMembers"
    /\ calls = [stop |-> 1, join |-> 1]
    /\ ioStopped /\ workerPc = "joined"
    /\ rxOutstanding = 1 /\ sendOps # <<>>

\* C16: a message buffer that was submitted stays allocated and unmodified
\* until its completion handler has run, and is released once, by that
\* handler, in every interleaving including stop and destruction.
C16_BufferAliveUntilHandled ==
    [][\A op \in Ops :
          \/ \E i \in 1..Len(sendOps') : sendOps'[i] = op
          \/ HandlerRuns /\ op = Head(sendOps)]_vars

\* C17: notifications are handed to handleReceivedData in the order of
\* their arrival on the socket: a completion takes the oldest datagram
\* waiting, which then has left the socket (it is not delivered again and
\* the later ones follow it), and no completion starts before the running
\* one has returned.
C17_DeliveredInArrivalOrder ==
    /\ [][(cb'.active /\ ~cb.active) =>
             /\ sockQueue # <<>>
             /\ sockQueue' = Tail(sockQueue)
             /\ cb'.d.accepted =>
                   /\ WellFormed(Head(sockQueue))
                   /\ cb'.d.head = Head(sockQueue).head
                   /\ cb'.d.frames = View(Head(sockQueue).frames,
                                          Head(sockQueue).head.nframes)]_vars
    /\ [][cb.active => (cb' = cb \/ ~cb'.active)]_vars

\* the callback of one notification is running while a different
\* well-formed notification, arrived after it, waits on the socket
C17_Witness ==
    /\ cb.active /\ cb.d.accepted
    /\ sockQueue # <<>> /\ WellFormed(Head(sockQueue))
    /\ Head(sockQueue).head # cb.d.head

\* the sends a step has added to the outstanding ones
Added == SubSeq(sendOps', Len(sendOps) + 1, Len(sendOps'))

\* C18: txSendMultipleFrames(frames, n, isCANFD) submits n TX_SEND messages
\* in index order, the i-th with nframes = 1 and frames[i], each with its
\* own completion; a send the socket refuses neither keeps the later ones
\* from being submitted nor takes the earlier ones back.
C18_SendMultipleFrames ==
    /\ [](\A op \in OpsOf("txSendMultipleFrames") :
            /\ op.msg.head.opcode = "TX_SEND"
            /\ op.msg.head.nframes = 1
            /\ ("CAN_FD_FRAME" \in op.msg.head.flags) <=> op.args.isCANFD
            /\ MsgSize(op.msg) = HeaderSize + FrameSize(op.args.isCANFD)
            /\ op.msg.frames
                 = FrameArr(1, <<ToLayout(At(op.args.frames, op.idx),
                                          op.args.isCANFD)>>))
    /\ [][TxSendMultipleFrames =>
             /\ SubSeq(sendOps', 1, Len(sendOps)) = sendOps
             /\ \A i \in 1..Len(Added) :
                   /\ Added[i].args.op = "txSendMultipleFrames"
                   /\ Added[i].args.nframes = Len(Added)
                   /\ Added[i].idx = i]_vars

\* the first send of a call was refused by the socket and the second one
\* was submitted and accepted all the same
C18_Witness ==
    \E i \in 1..Len(sendOps) :
        /\ i < Len(sendOps)
        /\ sendOps[i].args.op = "txSendMultipleFrames"
        /\ sendOps[i].idx = 1 /\ sendOps[i].err
        /\ sendOps[i + 1].args = sendOps[i].args
        /\ sendOps[i + 1].idx = 2 /\ ~sendOps[i + 1].err

\* C19: a completion that reports an OS-level error is not fatal: after a
\* failed receive a receive is armed again and the worker goes on running
\* the loop, a failed send completion leaves the loop and the armed receive
\* as they are, the loop is stopped by stopProcessing only, and the worker
\* leaves run() only once the loop is stopped.
C19_ErrorsNonFatal ==
    /\ [][(cb.active /\ cb.d.err /\ ~cb'.active) =>
             /\ rxOutstanding' = rxOutstanding + 1
             /\ workerPc' = "run"
             /\ ioStopped' = ioStopped]_vars
    /\ [][(HandlerRuns /\ Head(sendOps).err) =>
             /\ ~ioStopped'
             /\ rxOutstanding' = rxOutstanding
             /\ sockQueue' = sockQueue]_vars
    /\ [][(ioStopped' /\ ~ioStopped) =>
             (appPc = "ready" /\ appPc' \in {"join", "stopJoin"})]_vars
    /\ [][(workerPc' = "exited" /\ workerPc # "exited") => ioStopped]_vars

\* the completion of a failed receive is executing, the loop is running
\* and a well-formed notification waits on the socket
C19_Witness ==
    /\ cb.active /\ cb.d.err /\ ~ioStopped
    /\ sockQueue # <<>> /\ WellFormed(Head(sockQueue))

\* C20: a receive completion that does not call handleReceivedData (error,
\* fewer bytes than the header, size mismatch) and a failed send completion
\* each report a diagnostic before they return.
C20_FailuresReported ==
    /\ (cb.active /\ ~cb.d.accepted) => cb.d.diag
    /\ \A op \in Ops : op.err => SendHandlerOutput(op.err) = "failed"

\* C22: the header txSetupSequence submits for 1 <= nframes <= 256 has the
\* opcode TX_SETUP, the flags SETTIMER and STARTTIMER and the FD flag iff
\* isCANFD, and count, ival1, ival2 and nframes of the call; slot i of the
\* payload holds frames[i] (its id, length and data, a Classic slot having
\* room for CAN_MAX_DLEN data bytes), in the order given.
C22_SetupHeaderAndPayload ==
    \A op \in OpsOf("txSetupSequence") :
        ValidNFrames(op.args.nframes) =>
            /\ op.msg.head.opcode = "TX_SETUP"
            /\ op.msg.head.flags
                 = {"SETTIMER", "STARTTIMER"}
                   \cup (IF op.args.isCANFD THEN {"CAN_FD_FRAME"} ELSE {})
            /\ op.msg.head.count = op.args.count
            /\ op.msg.head.ival1 = op.args.ival1
            /\ op.msg.head.ival2 = op.args.ival2
            /\ op.msg.head.nframes = op.args.nframes
            /\ op.msg.fd = op.args.isCANFD
            /\ op.msg.frames.len = op.args.nframes
            /\ \A i \in 1..op.args.nframes :
                  LET slot == At(op.msg.frames, i)
                      f == At(op.args.frames, i)
                  IN /\ slot.can_id = f.can_id
                     /\ slot.len = f.len
                     /\ slot.data
                          = IF op.args.isCANFD THEN f.data
                            ELSE SubSeq(f.data, 1, Min(Len(f.data), CanMaxDlen))

\* a TX_SETUP of 256 FD frames and one of 256 Classic frames were submitted
C22_Witness ==
    /\ \E op \in OpsOf("txSetupSequence") :
          op.args.nframes = MAXFRAMES /\ op.args.isCANFD
    /\ \E op \in OpsOf("txSetupSequence") :
          op.args.nframes = MAXFRAMES /\ ~op.args.isCANFD

\* C23: handleReceivedData is called for a receive completion iff the
\* completion reports no error, receivedBytes >= headerSize and receivedBytes
\* = headerSize + header.nframes * frameSize(FD flag of the header); it is
\* then given the header's nframes and the header's FD flag.
C23_HandledIffWellFormed ==
    cb.active =>
        /\ cb.d.accepted <=> (/\ ~cb.d.err
                              /\ rxBuffer.len >= HeaderSize
                              /\ rxBuffer.len = DeclaredBytes)
        /\ cb.d.accepted =>
              /\ cb.d.nframes = rxBuffer.head.nframes
              /\ cb.d.isCANFD <=> ("CAN_FD_FRAME" \in rxBuffer.head.flags)
              /\ cb.d.head = rxBuffer.head

\* handleReceivedData is executing for a notification of one FD frame
C23_Witness ==
    /\ cb.active /\ cb.d.accepted /\ cb.d.isCANFD
    /\ cb.d.nframes = 1 /\ rxBuffer.len = HeaderSize + CanFdFrameSize

\* the constructor is in createBcmSocket
InCreateBcmSocket == appPc \in {"ctorSocket", "ctorConnect"}

\* C24: construction resolves the interface, then connects the channel,
\* then arms the first receive, then starts the worker: the step that
\* resolves the index issues no connect, the connect leaves the resolved
\* index as it is, no receive is armed and no worker started before the
\* connect has been made, and the first receive is submitted when the
\* worker thread is started.
C24_ConstructionOrder ==
    /\ [][(appPc = "ctorSocket" /\ appPc' # appPc) =>
             /\ appPc' = "ctorConnect"
             /\ sock'.connected = sock.connected]_vars
    /\ [][(appPc = "ctorConnect" /\ appPc' # appPc) =>
             /\ appPc' = "ctorReceive"
             /\ sock'.ifindex = sock.ifindex]_vars
    /\ [](InCreateBcmSocket => (rxOutstanding = 0 /\ workerPc = "none"))
    /\ [][(workerPc = "none" /\ workerPc' # "none") =>
             (rxOutstanding = 1 /\ ~InCreateBcmSocket)]_vars
    /\ [][(workerPc = "none" /\ rxOutstanding' > rxOutstanding) =>
             appPc = "ctorReceive"]_vars

\* the worker runs the loop of a connector that resolved the interface,
\* connected and armed its first receive
C24_Witness ==
    /\ appPc = "ready" /\ workerPc = "run"
    /\ sock = [ifindex |-> VcanIndex, connected |-> TRUE]
    /\ rxOutstanding = 1 /\ nInputs = 0

\* C25: once stop has been requested, a receive completion that is running
\* or runs later submits no further receive: no receive is armed after the
\* stop.
C25_NoReceiveAfterStop ==
    [][ioStopped => rxOutstanding' <= rxOutstanding]_vars

\* a step of the application thread inside stopProcessing or the destructor
StopStep ==
    /\ appPc' # appPc
    /\ appPc' \in {"join", "stopJoin", "stopped", "joinAgain",
                   "dtorMembers", "destroyed"}

\* C26: stopProcessing only halts the dispatch loop: it submits no send (no
\* TX_DELETE) and leaves the cyclic tasks in the kernel as they are; a task
\* disappears from the kernel only in a step that submits a txDelete.
C26_StopLeavesTasks ==
    /\ [][StopStep => (tasks' = tasks /\ Added = <<>>)]_vars
    /\ [][(\E t \in tasks : \A u \in tasks' : u.can_id # t.can_id) =>
             (Added # <<>> /\ Added[1].args.op = "txDelete")]_vars

\* the loop was stopped and the worker joined while a cyclic task set up
\* earlier is still held by the kernel
C26_Witness ==
    /\ appPc \in {"stopped", "destroyed"}
    /\ calls = [stop |-> 1, join |-> 1]
    /\ tasks # {}

\* C27: while handleReceivedData is executing no receive is outstanding on
\* rxBuffer: the buffer is not written during the callback, and the next
\* receive is submitted in the step that ends the callback.
C27_BufferStableInCallback ==
    /\ []((cb.active /\ cb.d.accepted) => rxOutstanding = 0)
    /\ [][(cb.active /\ cb.d.accepted /\ cb'.active) =>
             (rxBuffer' = rxBuffer /\ cb'.d = cb.d)]_vars
    /\ [][(workerPc # "none" /\ rxOutstanding' > rxOutstanding) =>
             (cb.active /\ ~cb'.active)]_vars

\* handleReceivedData is executing on the contents of rxBuffer while a
\* later datagram waits on the socket
C27_Witness ==
    /\ cb.active /\ cb.d.accepted /\ ~ioStopped
    /\ rxOutstanding = 0
    /\ rxBuffer.head = cb.d.head
    /\ sockQueue # <<>> /\ ~Head(sockQueue).err

\* C28: the worker does not leave run() before stop is requested: from its
\* start on, whenever it is not executing a receive completion, a receive is
\* pending in the loop, whatever completions and errors have occurred.
C28_WorkerStaysInLoop ==
    /\ workerPc \in {"exited", "joined"} => ioStopped
    /\ (workerPc \in {"spawned", "run"} /\ ~ioStopped) => rxOutstanding >= 1

\* the worker is in run() with only the receive pending, after two inputs,
\* one of them a datagram that was discarded
C28_Witness ==
    /\ workerPc = "run" /\ ~ioStopped /\ ~crashed
    /\ malformedSeen /\ nInputs >= 2
    /\ sendOps = <<>> /\ sockQueue = <<>> /\ rxOutstanding = 1

\* stopProcessing has returned
StopReturned == appPc \in {"stopped", "joinAgain", "dtorMembers", "destroyed"}

\* C29: after stopProcessing has returned no completion handler runs: the
\* worker is joined and no receive completion is executing, and from then on
\* handleReceivedData is not called, rxBuffer is not written and no send
\* completion is run, also for a send submitted after the stop.
C29_NoHandlerAfterStop ==
    /\ [](StopReturned => (workerPc = "joined" /\ ~cb.active))
    /\ [][StopReturned =>
             /\ cb' = cb
             /\ rxBuffer' = rxBuffer
             /\ workerPc' = workerPc
             /\ Len(sendOps') < Len(sendOps) => appPc' = "destroyed"]_vars

\* stopProcessing has returned while a datagram waits on the socket and a
\* send is outstanding
C29_Witness ==
    /\ appPc = "stopped"
    /\ sockQueue # <<>>
    /\ sendOps # <<>>

\* C30: whatever nframes txSetupSequence is called with, it writes no frame
\* slot outside the 256 slots of the message's frame array, and the nframes
\* field of the header it submits is at most 256.
C30_SetupWithinCapacity ==
    /\ ~crashed
    /\ \A op \in OpsOf("txSetupSequence") :
          /\ ~SetupOverflows(op.args.nframes, op.args.isCANFD)
          /\ op.msg.frames.len <= MAXFRAMES
          /\ op.msg.head.nframes <= MAXFRAMES

\* C21: with the tx* operations called from several application threads
\* while the worker re-arms the receive, no two threads are inside a member
\* function of the shared bcmSocket at the same time, and every call adds
\* exactly one send to the outstanding ones, none of them lost or altered.
C21_ConcurrentCallsSynchronized ==
    /\ [](Cardinality(sockUsers) <= 1)
    /\ [][(\E t \in AppThreads : t \in sockUsers /\ t \notin sockUsers') =>
             /\ Len(sendOps') = Len(sendOps) + 1
             /\ SubSeq(sendOps', 1, Len(sendOps)) = sendOps]_vars

====
